---- MODULE Spec2Model ----
(***************************************************************************)
(* Model of loggoblin/cli.py: the "sync" command, which walks the          *)
(* selected log groups and their streams, analyses each fetched batch of   *)
(* events (shared-field extraction, zoom guess), renders one line per      *)
(* event and writes the stream's log file.                                 *)
(*                                                                         *)
(* A text (Python str) is a sequence of tokens.  A token is a run of       *)
(* characters that the code never looks inside: a word, a punctuation      *)
(* character of JSON, one whitespace character, an ISO date-time or a      *)
(* GUID.  len() of a text is the sum of the character lengths of its       *)
(* tokens.                                                                 *)
(***************************************************************************)
EXTENDS Integers, Sequences, FiniteSets, TLC

VARIABLES zoom, utc_offset, log_groups, store, pc, log_group, index, nstreams, status,
          src_events, events, guessed_zoom, shared_values, pos,
          zoom_parts, all_events, log_text

vars == <<zoom, utc_offset, log_groups, store, pc, log_group, index, nstreams, status,
          src_events, events, guessed_zoom, shared_values, pos,
          zoom_parts, all_events, log_text>>

----------------------------------------------------------------------------
(* Bounds *)

MaxBatch == 3

NumGroups == 2

MaxStreams == 2

----------------------------------------------------------------------------
(* Texts *)

Space == " "

Tab == "\t"

Quote == "\""

IsSpace(t) == t \in {Space, Tab}

IsoTokens == {"2024-01-01T10:00:00Z"}

GuidTokens == {"a1b2c3d4-e5f6-7890-abcd-1234567890ab"}

NumTokens == {"1", "2"}

RECURSIVE StrLen(_)
StrLen(s) == IF s = <<>> THEN 0 ELSE Len(Head(s)) + StrLen(Tail(s))

RECURSIVE Cat(_)
Cat(s) == IF s = <<>> THEN "" ELSE Head(s) \o Cat(Tail(s))

RECURSIVE LStrip(_)
LStrip(s) == IF s # <<>> /\ IsSpace(Head(s)) THEN LStrip(Tail(s)) ELSE s

RECURSIVE RStrip(_)
RStrip(s) ==
    IF s # <<>> /\ IsSpace(s[Len(s)]) THEN RStrip(SubSeq(s, 1, Len(s) - 1)) ELSE s

strip(s) == RStrip(LStrip(s))

RECURSIVE FirstSpace(_, _)
FirstSpace(s, i) ==
    IF i > Len(s) THEN 0 ELSE IF IsSpace(s[i]) THEN i ELSE FirstSpace(s, i + 1)

\* s.split(None, 1): at most one split, on the first run of whitespace
split_once(s) ==
    LET t == LStrip(s)
        i == FirstSpace(t, 1)
        rest == LStrip(SubSeq(t, i + 1, Len(t)))
    IN  IF t = <<>> THEN <<>>
        ELSE IF i = 0 THEN <<t>>
        ELSE IF rest = <<>> THEN <<SubSeq(t, 1, i - 1)>>
        ELSE <<SubSeq(t, 1, i - 1), rest>>

\* s[n:] ; a token cut in the middle leaves a fragment of it
RECURSIVE DropChars(_, _)
DropChars(s, n) ==
    IF n = 0 \/ s = <<>> THEN s
    ELSE IF Len(Head(s)) <= n THEN DropChars(Tail(s), n - Len(Head(s)))
    ELSE <<"~">> \o Tail(s)

\* re.match(r"\d{4}-\d{2}-\d{2}T", s)
IsIsoPrefix(s) == s # <<>> /\ Head(s) \in IsoTokens

\* re.match(r"\w{8}-\w{4}-\w{4}-\w{4}-\w{12}", s)
IsGuidPrefix(s) == s # <<>> /\ Head(s) \in GuidTokens

GuidSkip == 37

Raised == [ok |-> FALSE, val |-> <<>>]

Returned(s) == [ok |-> TRUE, val |-> s]

trim_event(s) ==
    LET parts == split_once(strip(s))
    IN  IF Len(parts) # 2 THEN Raised
        ELSE IF IsIsoPrefix(parts[1]) THEN Returned(parts[2])
        ELSE IF IsGuidPrefix(strip(s)) THEN Returned(DropChars(strip(s), GuidSkip))
        ELSE Returned(strip(s))

----------------------------------------------------------------------------
(* JSON values and dicts (insertion-ordered, unique keys) *)

Str(s) == [t |-> "str", s |-> s]

Num(tok) == [t |-> "num", s |-> <<tok>>]

\* JSON null and Python None
Null == [t |-> "null", s |-> <<>>]

DictKeys(d) == {d[i].k : i \in 1..Len(d)}

DictHas(d, k) == k \in DictKeys(d)

DictGet(d, k) == d[CHOOSE i \in 1..Len(d) : d[i].k = k].v

DictSet(d, k, v) ==
    IF DictHas(d, k)
    THEN [i \in 1..Len(d) |-> IF d[i].k = k THEN [k |-> k, v |-> v] ELSE d[i]]
    ELSE Append(d, [k |-> k, v |-> v])

DictPop(d, k) == SelectSeq(d, LAMBDA e : e.k # k)

Tok(s, i) == IF i >= 1 /\ i <= Len(s) THEN s[i] ELSE ""

RECURSIVE SkipWs(_, _)
SkipWs(s, i) == IF i <= Len(s) /\ IsSpace(s[i]) THEN SkipWs(s, i + 1) ELSE i

RECURSIVE FindQuote(_, _)
FindQuote(s, i) ==
    IF i > Len(s) THEN 0 ELSE IF s[i] = Quote THEN i ELSE FindQuote(s, i + 1)

ParseString(s, i) ==
    LET j == FindQuote(s, i + 1)
    IN  IF Tok(s, i) # Quote \/ j = 0
        THEN [ok |-> FALSE, val |-> <<>>, next |-> 0]
        ELSE [ok |-> TRUE, val |-> SubSeq(s, i + 1, j - 1), next |-> j + 1]

ParseValue(s, i) ==
    IF Tok(s, i) = Quote
    THEN LET r == ParseString(s, i)
         IN  [ok |-> r.ok, val |-> Str(r.val), next |-> r.next]
    ELSE IF Tok(s, i) \in NumTokens
    THEN [ok |-> TRUE, val |-> Num(s[i]), next |-> i + 1]
    ELSE IF Tok(s, i) = "null"
    THEN [ok |-> TRUE, val |-> Null, next |-> i + 1]
    ELSE [ok |-> FALSE, val |-> Null, next |-> 0]

DecodeError == [ok |-> FALSE, d |-> <<>>, next |-> 0]

RECURSIVE ParseMembers(_, _, _)
ParseMembers(s, i, d) ==
    LET key == ParseString(s, i)
        c == SkipWs(s, key.next)
        val == ParseValue(s, SkipWs(s, c + 1))
        e == SkipWs(s, val.next)
        d2 == DictSet(d, Cat(key.val), val.val)
    IN  IF ~key.ok THEN DecodeError
        ELSE IF Tok(s, c) # ":" THEN DecodeError
        ELSE IF ~val.ok THEN DecodeError
        ELSE IF Tok(s, e) = "}" THEN [ok |-> TRUE, d |-> d2, next |-> e + 1]
        ELSE IF Tok(s, e) = "," THEN ParseMembers(s, SkipWs(s, e + 1), d2)
        ELSE DecodeError

\* json.loads of a text; objects of strings, numbers and nulls
json_loads(s) ==
    LET i == SkipWs(s, 1)
        j == SkipWs(s, i + 1)
        r == IF Tok(s, j) = "}"
             THEN [ok |-> TRUE, d |-> <<>>, next |-> j + 1]
             ELSE ParseMembers(s, j, <<>>)
    IN  IF Tok(s, i) # "{" THEN DecodeError
        ELSE IF ~r.ok THEN DecodeError
        ELSE IF SkipWs(s, r.next) <= Len(s) THEN DecodeError
        ELSE r

\* json.dumps of a value
dumps_value(v) ==
    IF v.t = "str" THEN <<Quote>> \o v.s \o <<Quote>>
    ELSE IF v.t = "num" THEN v.s
    ELSE <<"null">>

RECURSIVE dumps_members(_)
dumps_members(d) ==
    IF d = <<>> THEN <<>>
    ELSE <<Quote, Head(d).k, Quote, ":", Space>> \o dumps_value(Head(d).v)
         \o (IF Len(d) > 1 THEN <<",", Space>> ELSE <<>>)
         \o dumps_members(Tail(d))

\* json.dumps of a dict, default separators
json_dumps(d) == <<"{">> \o dumps_members(d) \o <<"}">>

----------------------------------------------------------------------------
(* Events *)

\* Msg.parsed: None, or a dict
NoneParsed == [none |-> TRUE, d |-> <<>>]

Parsed(d) == [none |-> FALSE, d |-> d]

\* "not event.parsed": None and the empty dict are both falsy
Falsy(p) == p.none \/ p.d = <<>>

Msg(message, timestamp) ==
    [message |-> message, timestamp |-> timestamp, parsed |-> NoneParsed]

RECURSIVE join(_, _)
join(sep, list) ==
    IF list = <<>> THEN <<>>
    ELSE IF Len(list) = 1 THEN Head(list)
    ELSE Head(list) \o <<sep>> \o join(sep, Tail(list))

\* zoom_loop reading with loaded.get(part) instead of loaded.pop(part, None)
RECURSIVE zoom_loop_get(_, _, _)
zoom_loop_get(loaded, parts, to_render) ==
    IF parts = <<>> THEN [loaded |-> loaded, to_render |-> to_render]
    ELSE LET part == Head(parts)
             got == IF DictHas(loaded, part) THEN DictGet(loaded, part) ELSE Null
             rendered == IF got.t = "str" THEN Append(to_render, got.s)
                         ELSE IF got = Null THEN to_render
                         ELSE Append(to_render, dumps_value(got))
         IN  zoom_loop_get(loaded, Tail(parts), rendered)

\* the loop of zoom_in: loaded.pop(part, None) for each part
RECURSIVE zoom_loop(_, _, _)
zoom_loop(loaded, parts, to_render) ==
    IF parts = <<>> THEN [loaded |-> loaded, to_render |-> to_render]
    ELSE LET part == Head(parts)
             popped == IF DictHas(loaded, part) THEN DictGet(loaded, part) ELSE Null
             rendered == IF popped.t = "str" THEN Append(to_render, popped.s)
                         ELSE IF popped = Null THEN to_render
                         ELSE Append(to_render, dumps_value(popped))
         IN  zoom_loop(DictPop(loaded, part), Tail(parts), rendered)

\* returns the text and event.parsed as the pops leave it
zoom_in(event, parts) ==
    IF Falsy(event.parsed)
    THEN [text |-> event.message, parsed |-> event.parsed]
    ELSE LET r == zoom_loop(event.parsed.d, parts, <<>>)
         IN  [text |-> join(Tab, r.to_render) \o <<Tab>> \o json_dumps(r.loaded),
              parsed |-> Parsed(r.loaded)]

\* strftime("%H:%M:%S") of fromtimestamp(tstamp / 1000), local time
time_text(tstamp) ==
    LET secs == (tstamp \div 1000) + utc_offset
    IN  <<(secs \div 3600) % 24, (secs \div 60) % 60, secs % 60>>

\* returns the line (time, one space, text), or raises; parsed is
\* event.parsed after the call in both cases
render_event(event, parts) ==
    LET z == zoom_in(event, parts)
        text == IF parts # <<>> THEN Returned(z.text) ELSE trim_event(event.message)
        out == IF text.ok THEN trim_event(text.val) ELSE Raised
    IN  [ok |-> out.ok,
         time |-> time_text(event.timestamp),
         text |-> out.val,
         parsed |-> IF parts # <<>> THEN z.parsed ELSE event.parsed]

----------------------------------------------------------------------------
(* analyze_events and remove_shared_values *)

safe_parse_json(text) ==
    LET r == json_loads(text) IN IF r.ok THEN r.d ELSE <<>>

StartsWithBrace(message) == message # <<>> /\ Head(message) = "{"

Messages(raw) == [i \in 1..Len(raw) |-> Msg(raw[i].message, raw[i].timestamp)]

JsonMessages(messages) == SelectSeq(messages, LAMBDA m : StartsWithBrace(m.message))

\* longest_json taking the first JSON message instead of the longest
longest_json_first(json_messages) == json_messages[1].message

\* max(json_messages, key=len(message)): the first of the longest
longest_json(json_messages) ==
    LET best == CHOOSE i \in 1..Len(json_messages) :
                  /\ \A j \in 1..Len(json_messages) :
                        StrLen(json_messages[j].message) <= StrLen(json_messages[i].message)
                  /\ \A j \in 1..(i - 1) :
                        StrLen(json_messages[j].message) < StrLen(json_messages[i].message)
    IN  json_messages[best].message

tries == <<"level", "logLevel", "log_level", "message", "scope", "text", "exception">>

GuessZoom(parsed_longest) == SelectSeq(tries, LAMBDA k : DictHas(parsed_longest, k))

ParseAll(json_messages) ==
    [i \in 1..Len(json_messages) |->
        [json_messages[i] EXCEPT !.parsed = Parsed(safe_parse_json(json_messages[i].message))]]

\* accumulate keeping the latest value instead of marking the key None
RECURSIVE accumulate_latest(_, _)
accumulate_latest(shared, items) ==
    IF items = <<>> THEN shared
    ELSE accumulate_latest(DictSet(shared, Head(items).k, Head(items).v), Tail(items))

\* one pass of "for k, v in ev.parsed.items()"
RECURSIVE accumulate(_, _)
accumulate(shared, items) ==
    IF items = <<>> THEN shared
    ELSE LET k == Head(items).k
             v == Head(items).v
         IN  accumulate(IF ~DictHas(shared, k) THEN DictSet(shared, k, v)
                        ELSE IF DictGet(shared, k) # v THEN DictSet(shared, k, Null)
                        ELSE shared,
                        Tail(items))

\* not_none without the "is not None" filter
not_none_unfiltered(shared) == shared

\* {k: shared_values[k] for k in shared_values if shared_values[k] is not None}
not_none(shared) == SelectSeq(shared, LAMBDA e : e.v # Null)

remove_shared_values(evs, keys) ==
    [i \in 1..Len(evs) |->
        IF Falsy(evs[i].parsed) THEN evs[i]
        ELSE [evs[i] EXCEPT !.parsed = Parsed(SelectSeq(evs[i].parsed.d, LAMBDA e : e.k \notin keys))]]

\* args.zoom.split(",")
RECURSIVE split_comma(_, _)
split_comma(s, item) ==
    IF s = <<>> THEN <<item>>
    ELSE IF Head(s) = "," THEN <<item>> \o split_comma(Tail(s), "")
    ELSE split_comma(Tail(s), item \o Head(s))

----------------------------------------------------------------------------
(* What the log store and the command line can supply *)

Iso1 == "2024-01-01T10:00:00Z"

Guid == "a1b2c3d4-e5f6-7890-abcd-1234567890ab"

\* hello
TextWord == <<"hello">>

\* 2024-01-01T10:00:00Z a1b2c3d4-e5f6-7890-abcd-1234567890ab connection reset
TextIso == <<Iso1, Space, Guid, Space, "connection", Space, "reset">>

\* {"level": "info", "env": "prod"}
JsonInfo ==
    <<"{", Quote, "level", Quote, ":", Space, Quote, "info", Quote, ",", Space,
      Quote, "env", Quote, ":", Space, Quote, "prod", Quote, "}">>

\* {"level": "error", "env": null, "n": 1}
JsonError ==
    <<"{", Quote, "level", Quote, ":", Space, Quote, "error", Quote, ",", Space,
      Quote, "env", Quote, ":", Space, "null", ",", Space,
      Quote, "n", Quote, ":", Space, "1", "}">>

\* {"env":"prod"}
JsonEnv == <<"{", Quote, "env", Quote, ":", Quote, "prod", Quote, "}">>

\* {"level": "info", "env": "prod", "x": "     (cut off; as long as JsonError)
JsonCut ==
    <<"{", Quote, "level", Quote, ":", Space, Quote, "info", Quote, ",", Space,
      Quote, "env", Quote, ":", Space, Quote, "prod", Quote, ",", Space,
      Quote, "x", Quote, ":", Space, Quote>>

\* {}
JsonEmpty == <<"{", "}">>

RawEvents ==
    { [message |-> TextWord, timestamp |-> 1000],
      [message |-> TextIso, timestamp |-> 61000],
      [message |-> JsonInfo, timestamp |-> 3661000],
      [message |-> JsonError, timestamp |-> 2000],
      [message |-> JsonEnv, timestamp |-> 3000],
      [message |-> JsonCut, timestamp |-> 4000],
      [message |-> JsonEmpty, timestamp |-> 5000] }

\* the events of a store that serves several groups and streams
SyncEvents ==
    { [message |-> TextWord, timestamp |-> 1000],
      [message |-> JsonInfo, timestamp |-> 3661000] }

\* what get_log_events can return from a store holding the events raw
Batches(raw) == UNION {[1..n -> raw] : n \in 0..MaxBatch}

\* --zoom: absent, or "env,n"
ZoomArgs == {<<>>, <<"env", ",", "n">>}

UtcOffsets == {0}

Statuses == {"pending", "failed", "empty", "written"}

----------------------------------------------------------------------------
(* sync_logs and sync_logs_for_group *)

NoLog == [preamble |-> <<>>, lines |-> <<>>]

\* the command starts: the arguments are parsed, select_from_sub has returned
\* the selected groups, and the log store holds the events raw
Start(groups, raw) ==
    /\ zoom \in ZoomArgs
    /\ utc_offset \in UtcOffsets
    /\ log_groups = groups
    /\ store = raw
    /\ pc = "describe"
    /\ log_group = 1
    /\ index = 0
    /\ nstreams = [g \in 1..NumGroups |-> 0]
    /\ status = [g \in 1..NumGroups |-> [s \in 1..MaxStreams |-> "pending"]]
    /\ src_events = <<>>
    /\ events = <<>>
    /\ guessed_zoom = <<>>
    /\ shared_values = <<>>
    /\ pos = 0
    /\ zoom_parts = <<>>
    /\ all_events = <<>>
    /\ log_text = NoLog

\* one selected group, every kind of event in the store
Init == Start(1, RawEvents)

\* several selected groups
InitSync == Start(NumGroups, SyncEvents)

\* the locals of one iteration of the stream loop go out of scope
ClearLocals ==
    /\ src_events' = <<>>
    /\ events' = <<>>
    /\ guessed_zoom' = <<>>
    /\ shared_values' = <<>>
    /\ pos' = 0
    /\ zoom_parts' = <<>>
    /\ all_events' = <<>>
    /\ log_text' = NoLog

\* sync_logs: the next log group of the loop, or the end of the command
NextGroup ==
    /\ index' = 0
    /\ IF log_group < log_groups
       THEN log_group' = log_group + 1 /\ pc' = "describe"
       ELSE log_group' = log_group /\ pc' = "done"

\* sync_logs: "except Exception" around sync_logs_for_group
Except(new_status) ==
    /\ status' = new_status
    /\ ClearLocals
    /\ NextGroup

DescribeStreams ==
    /\ pc = "describe"
    /\ \E n \in 0..MaxStreams : nstreams' = [nstreams EXCEPT ![log_group] = n]
    /\ index' = 0
    /\ pc' = "loop"
    /\ UNCHANGED <<zoom, utc_offset, log_groups, store, log_group, status, src_events, events,
                   guessed_zoom, shared_values, pos, zoom_parts, all_events, log_text>>

DescribeFails ==
    /\ pc = "describe"
    /\ Except(status)
    /\ UNCHANGED <<zoom, utc_offset, log_groups, store, nstreams>>

\* "for stream in streams": the next stream, or the end of the group
NextStream ==
    /\ pc = "loop"
    /\ ClearLocals
    /\ IF index < nstreams[log_group]
       THEN index' = index + 1 /\ pc' = "fetch" /\ log_group' = log_group
       ELSE NextGroup
    /\ UNCHANGED <<zoom, utc_offset, log_groups, store, nstreams, status>>

\* get_log_events returns a batch; an empty one breaks out of the loop
FetchEvents ==
    /\ pc = "fetch"
    /\ \E batch \in Batches(store) :
        IF batch = <<>>
        THEN /\ status' = [status EXCEPT ![log_group][index] = "empty"]
             /\ ClearLocals
             /\ NextGroup
        ELSE /\ src_events' = batch
             /\ pc' = "analyze"
             /\ UNCHANGED <<log_group, index, status, events, guessed_zoom,
                            shared_values, pos, zoom_parts, all_events, log_text>>
    /\ UNCHANGED <<zoom, utc_offset, log_groups, store, nstreams>>

FetchFails ==
    /\ pc = "fetch"
    /\ Except([status EXCEPT ![log_group][index] = "failed"])
    /\ UNCHANGED <<zoom, utc_offset, log_groups, store, nstreams>>

\* analyze_events up to the accumulation loop, or to an early return
AnalyzeStart ==
    /\ pc = "analyze"
    /\ LET messages == Messages(src_events)
           json_messages == JsonMessages(messages)
           parsed_longest == safe_parse_json(longest_json(json_messages))
       IN  IF json_messages = <<>>
           THEN /\ events' = messages
                /\ guessed_zoom' = <<>>
                /\ shared_values' = <<>>
                /\ pos' = 0
                /\ pc' = "remove"
           ELSE IF parsed_longest = <<>>
           THEN /\ events' = messages
                /\ guessed_zoom' = <<>>
                /\ shared_values' = <<>>
                /\ pos' = 0
                /\ pc' = "remove"
           ELSE /\ events' = ParseAll(json_messages)
                /\ guessed_zoom' = GuessZoom(parsed_longest)
                /\ shared_values' = <<>>
                /\ pos' = 1
                /\ pc' = "accumulate"
    /\ UNCHANGED <<zoom, utc_offset, log_groups, store, log_group, index, nstreams, status,
                   src_events, zoom_parts, all_events, log_text>>

\* one iteration of "for ev in json_messages"
Accumulate ==
    /\ pc = "accumulate"
    /\ pos <= Len(events)
    /\ shared_values' = IF Falsy(events[pos].parsed) THEN shared_values
                        ELSE accumulate(shared_values, events[pos].parsed.d)
    /\ pos' = pos + 1
    /\ UNCHANGED <<zoom, utc_offset, log_groups, store, pc, log_group, index, nstreams, status,
                   src_events, events, guessed_zoom, zoom_parts, all_events, log_text>>

\* the return of analyze_events after the loop
AnalyzeReturn ==
    /\ pc = "accumulate"
    /\ pos > Len(events)
    /\ shared_values' = not_none(shared_values)
    /\ pos' = 0
    /\ pc' = "remove"
    /\ UNCHANGED <<zoom, utc_offset, log_groups, store, log_group, index, nstreams, status,
                   src_events, events, guessed_zoom, zoom_parts, all_events, log_text>>

\* remove_shared_values, and the choice of the zoom parts
RemoveShared ==
    /\ pc = "remove"
    /\ events' = remove_shared_values(events, DictKeys(shared_values))
    /\ zoom_parts' = IF zoom # <<>> THEN split_comma(zoom, "") ELSE guessed_zoom
    /\ pos' = 1
    /\ pc' = "render"
    /\ UNCHANGED <<zoom, utc_offset, log_groups, store, log_group, index, nstreams, status,
                   src_events, guessed_zoom, shared_values, all_events, log_text>>

\* one element of [render_event(ev, zoom_parts) for ev in events]
Render ==
    /\ pc = "render"
    /\ pos <= Len(events)
    /\ LET r == render_event(events[pos], zoom_parts)
       IN  IF r.ok
           THEN /\ events' = [events EXCEPT ![pos].parsed = r.parsed]
                /\ all_events' = Append(all_events, [time |-> r.time, text |-> r.text])
                /\ pos' = pos + 1
                /\ UNCHANGED <<pc, log_group, index, status, src_events,
                               guessed_zoom, shared_values, zoom_parts, log_text>>
           ELSE Except([status EXCEPT ![log_group][index] = "failed"])
    /\ UNCHANGED <<zoom, utc_offset, log_groups, store, nstreams>>

\* log_path.write_text(preamble + "\n".join(all_events))
WriteLog ==
    /\ pc = "render"
    /\ pos > Len(events)
    /\ log_text' = [preamble |-> shared_values, lines |-> all_events]
    /\ status' = [status EXCEPT ![log_group][index] = "written"]
    /\ pc' = "loop"
    /\ UNCHANGED <<zoom, utc_offset, log_groups, store, log_group, index, nstreams, src_events,
                   events, guessed_zoom, shared_values, pos, zoom_parts, all_events>>

Next ==
    \/ DescribeStreams
    \/ DescribeFails
    \/ NextStream
    \/ FetchEvents
    \/ FetchFails
    \/ AnalyzeStart
    \/ Accumulate
    \/ AnalyzeReturn
    \/ RemoveShared
    \/ Render
    \/ WriteLog

Spec == Init /\ [][Next]_vars

SpecSync == InitSync /\ [][Next]_vars

TypeOK ==
    /\ pc \in {"describe", "loop", "fetch", "analyze", "accumulate", "remove", "render", "done"}
    /\ log_group \in 1..NumGroups
    /\ index \in 0..MaxStreams
    /\ \A g \in 1..NumGroups : \A s \in 1..MaxStreams : status[g][s] \in Statuses

----------------------------------------------------------------------------
(* Vocabulary of the properties *)

\* the positions of the JSON-classified events of a batch
JsonIdx(raw) == {i \in 1..Len(raw) : StartsWithBrace(raw[i].message)}

\* the map parsed from a message (empty when it does not parse)
OrigMap(message) == safe_parse_json(message)

BatchKeys(raw) == UNION {DictKeys(OrigMap(raw[i].message)) : i \in JsonIdx(raw)}

\* the text holds the field "k":
HasField(text, k) ==
    \E i \in 1..(Len(text) - 3) : SubSeq(text, i, i + 3) = <<Quote, k, Quote, ":">>

NoWhitespace(s) == \A i \in 1..Len(strip(s)) : ~IsSpace(strip(s)[i])

\* the representative fails to parse or is the empty object, or there is none
Degraded(raw) ==
    \/ JsonIdx(raw) = {}
    \/ LET rep == CHOOSE i \in JsonIdx(raw) :
                    /\ \A j \in JsonIdx(raw) :
                          StrLen(raw[j].message) <= StrLen(raw[i].message)
                    /\ \A j \in JsonIdx(raw) :
                          j < i => StrLen(raw[j].message) < StrLen(raw[i].message)
       IN  \/ ~json_loads(raw[rep].message).ok
           \/ json_loads(raw[rep].message).d = <<>>

\* analyze_events has returned for the current batch
Analyzed == pc \in {"remove", "render"} \/ (pc = "loop" /\ index >= 1)

\* render_event has run on event i of the current batch
RenderedAt(i) == (pc = "render" /\ i < pos) \/ (pc = "loop" /\ index >= 1)

Restrict(d, keys) == SelectSeq(d, LAMBDA e : e.k \in keys)

SeqRange(q) == {q[i] : i \in 1..Len(q)}

----------------------------------------------------------------------------
(* Properties *)

\* C1: a key is in the SharedFields returned by analyze_events iff it is in
\* the parsed map of every JSON-classified event of the batch and all those
\* events carry the same value for it.
C1_SharedIffInEveryEvent ==
    pc = "remove" =>
        \A k \in BatchKeys(src_events) \cup DictKeys(shared_values) :
            k \in DictKeys(shared_values) <=>
                /\ \A i \in JsonIdx(src_events) :
                      DictHas(OrigMap(src_events[i].message), k)
                /\ \A i, j \in JsonIdx(src_events) :
                      DictGet(OrigMap(src_events[i].message), k)
                        = DictGet(OrigMap(src_events[j].message), k)

\* C2: after analysis, removal and rendering, no key of SharedFields appears
\* as a field in any rendered line, whatever the zoom-field list.
C2_NoSharedKeyInRenderedLine ==
    pc = "render" =>
        \A i \in 1..Len(all_events) :
            \A k \in DictKeys(shared_values) : ~HasField(all_events[i].text, k)

\* C3: the lines written for a stream are one per fetched event, the i-th
\* line being the rendering of the i-th fetched event.
C3_OneLinePerFetchedEvent ==
    (pc = "loop" /\ index >= 1 /\ status[log_group][index] = "written") =>
        /\ Len(log_text.lines) = Len(src_events)
        /\ \A i \in 1..Len(src_events) :
              /\ events[i].message = src_events[i].message
              /\ log_text.lines[i].time = time_text(src_events[i].timestamp)

\* C4: trim_event never raises; a text without whitespace is returned
\* unchanged, so render_event returns a line for a single-token message.
C4_TrimNeverRaises ==
    /\ \A i \in 1..Len(src_events) :
          /\ trim_event(src_events[i].message).ok
          /\ NoWhitespace(src_events[i].message) =>
                trim_event(src_events[i].message) = Returned(src_events[i].message)
    /\ (pc = "render" /\ pos <= Len(events)) =>
          (NoWhitespace(events[pos].message) => render_event(events[pos], zoom_parts).ok)

\* C5: a failure while processing one stream does not keep any later stream,
\* of the same log group or of a later one, from being processed.
C5_LaterStreamsProcessed ==
    pc = "done" =>
        \A g \in 1..log_groups : \A s \in 1..nstreams[g] :
            status[g][s] = "pending" =>
                ~\E g2 \in 1..log_groups : \E s2 \in 1..nstreams[g2] :
                    /\ status[g2][s2] = "failed"
                    /\ (g2 < g \/ (g2 = g /\ s2 < s))

\* C6: for an event without parsed map, render_event gives the time, and
\* trim_event applied once to the raw message, whatever the zoom-field list.
C6_PlainRenderTrimsOnce ==
    pc = "render" =>
        \A i \in pos..Len(events) :
            events[i].parsed.none =>
                \A parts \in {<<>>, <<"level">>, zoom_parts} :
                    LET r == render_event(events[i], parts)
                        once == trim_event(events[i].message)
                    IN  /\ r.ok = once.ok
                        /\ r.ok => /\ r.time = time_text(events[i].timestamp)
                                   /\ r.text = once.val

\* C7: without a JSON-classified event, or with a representative that fails
\* to parse or is the empty object, analyze_events returns every event with
\* no parsed map, an empty zoom guess and empty SharedFields; nothing is
\* removed and every line is the plain-text trimming of the raw message.
C7_DegradedBatchIsPlain ==
    /\ pc = "accumulate" => ~Degraded(src_events)
    /\ (Analyzed /\ Degraded(src_events)) =>
          /\ guessed_zoom = <<>>
          /\ shared_values = <<>>
          /\ events = Messages(src_events)
          /\ \A i \in 1..Len(all_events) :
                LET once == trim_event(src_events[i].message)
                IN  all_events[i].text =
                        IF zoom_parts = <<>> THEN trim_event(once.val).val ELSE once.val

C7_Witness ==
    /\ pc = "render"
    /\ pos > Len(events)
    /\ Degraded(src_events)
    /\ Len(all_events) = Len(src_events)
    /\ \E i \in JsonIdx(src_events) : OrigMap(src_events[i].message) # <<>>

\* C8: the keys missing from an event's parsed map are exactly the
\* SharedFields keys and, once rendered, the zoom keys that the event had;
\* the remaining keys keep their values, and an event without parsed map
\* is untouched.
C8_RemovedKeysExact ==
    Analyzed =>
        \A i \in 1..Len(events) :
            LET orig == OrigMap(events[i].message)
                gone == (IF pc = "remove" THEN {} ELSE DictKeys(shared_values))
                          \cup (IF RenderedAt(i) THEN SeqRange(zoom_parts) ELSE {})
            IN  IF events[i].parsed.none
                THEN events[i] = Messages(src_events)[i]
                ELSE events[i].parsed.d = Restrict(orig, DictKeys(orig) \ gone)

C8_Witness ==
    /\ pc = "render"
    /\ pos > Len(events)
    /\ \E i \in 1..Len(events) :
          LET orig == OrigMap(events[i].message)
          IN  /\ DictKeys(orig) \cap DictKeys(shared_values) # {}
              /\ (DictKeys(orig) \cap SeqRange(zoom_parts)) \ DictKeys(shared_values) # {}
              /\ events[i].parsed.d # <<>>

\* C9: during the accumulation a key only moves forward, unseen -> first
\* value -> differs: a key marked "differs" stays marked whatever comes
\* later, and is absent from the returned SharedFields.
C9_DiffersIsAbsorbing ==
    [][pc = "accumulate" =>
          \A k \in DictKeys(shared_values) :
              /\ pc' = "accumulate" =>
                    /\ DictHas(shared_values', k)
                    /\ DictGet(shared_values', k) \in {DictGet(shared_values, k), Null}
                    /\ DictGet(shared_values, k) = Null => DictGet(shared_values', k) = Null
              /\ pc' = "remove" =>
                    (DictGet(shared_values, k) = Null => ~DictHas(shared_values', k))]_vars

C9_Witness ==
    /\ pc = "accumulate"
    /\ \E k \in DictKeys(shared_values) :
          /\ DictGet(shared_values, k) = Null
          /\ \E a, b, c \in 1..(pos - 1) :
                /\ a < b /\ b < c
                /\ DictHas(events[a].parsed.d, k)
                /\ DictHas(events[b].parsed.d, k)
                /\ DictHas(events[c].parsed.d, k)
                /\ DictGet(events[a].parsed.d, k) # Null
                /\ DictGet(events[a].parsed.d, k) # DictGet(events[b].parsed.d, k)
                /\ DictGet(events[a].parsed.d, k) = DictGet(events[c].parsed.d, k)

\* C10: the returned SharedFields never maps a key to null; a key that is
\* null in some event with a non-empty parsed map is not in SharedFields,
\* so it is neither in the header nor removed by remove_shared_values.
C10_NoNullShared ==
    Analyzed =>
        /\ \A i \in 1..Len(shared_values) : shared_values[i].v # Null
        /\ \A i \in 1..Len(events) :
              LET orig == OrigMap(events[i].message)
              IN  \A k \in DictKeys(orig) :
                      (~events[i].parsed.none /\ DictGet(orig, k) = Null) =>
                          /\ ~DictHas(shared_values, k)
                          /\ ~DictHas(log_text.preamble, k)
                          /\ (pc = "render" /\ pos = 1) => DictHas(events[i].parsed.d, k)

C10_Witness ==
    /\ pc = "render"
    /\ pos = 1
    /\ shared_values # <<>>
    /\ \E k \in BatchKeys(src_events) :
          /\ ~DictHas(shared_values, k)
          /\ \A i \in 1..Len(events) :
                /\ DictHas(events[i].parsed.d, k)
                /\ DictGet(events[i].parsed.d, k) = Null

====
